---- MODULE Spec2Model ----
(***************************************************************************)
(* State machines of the TCB loan assistant.                               *)
(*                                                                         *)
(*   Spec     the chat application of src/index.jsx (src/unnamed/part_000  *)
(*            is the same component with longer message texts): API key,   *)
(*            key dialog, rulebook upload, transcript, send / completion.  *)
(*   SpecTsx  the document shell of src/App.tsx: extension check, parse,   *)
(*            reset.                                                       *)
(*   SpecLive    index.jsx with a stored key, every completion call        *)
(*               settling (weak fairness per pending call).                *)
(*   SpecWindow  index.jsx with a stored key, one rulebook and two         *)
(*               questions, transcripts longer than the history window.    *)
(*                                                                         *)
(* Texts are sequences of one-character strings, so that trim(),           *)
(* toLowerCase() and endsWith() are computed rather than assumed.          *)
(* Message ids keep their prefix only ('sys-', 'bot-', 'err-', bare        *)
(* number for a user turn, '1' for the greeting); the Date.now() part and  *)
(* the timestamp field are left out: no handler reads them.                *)
(***************************************************************************)
EXTENDS Integers, Sequences, FiniteSets, TLC

\* ---------------------------------------------------------------- bounds
MaxMsgs == 6        \* longest transcript explored
MaxUploads == 2     \* extractions of index.jsx in flight at once
MaxWindowMsgs == 10 \* longest transcript explored where the history window cuts

\* ------------------------------------------------------- program constants
HistoryWindow == 6  \* messages.slice(-6)

\* ---------------------------------------------------------------- values
Null == <<"null">>              \* JS null / undefined / absent storage item
Empty == <<>>                   \* the empty string ''

GREETING == <<"GREETING">>      \* content of the initial assistant message
ERRTEXT == <<"AI_ERROR">>       \* "⚠️ AI 連線發生錯誤。"
LoadedText(name) == <<"LOADED:">> \o name   \* `✅ **${file.name}** 已載入。...`

Keys == {Empty, <<"k">>}                        \* what the key field may hold
StoredKeys == {Null, Empty, <<"k">>}            \* localStorage item at start
Inputs == {Empty, <<" ">>, <<" ", "q">>}        \* what the question field may hold
Replies == {<<"a">>}                            \* response.text
DocTexts == {Empty, <<" ">>, <<"t">>, <<"t", " ">>} \* result.value of extractRawText
FileNames == {<<"r", ".", "d", "o", "c", "x">>,   \* files the picker may hand over
              <<"r", ".", "p", "d", "f">>}
TsxFileNames == FileNames \cup {<<"R", ".", "D", "O", "C", "X">>,
                                <<"r", ".", "D", "o", "c", "x">>,
                                <<".", "d", "o", "c", "x">>,
                                <<"r", ".", "d", "o", "c", "x", ".", "p", "d", "f">>,
                                <<"d", "o", "c", "x">>}
TsxDocTexts == DocTexts \cup {Null, <<"u">>, <<"\n", "t">>, <<"\n">>}   \* the same, for App.tsx
DOCX == <<".", "d", "o", "c", "x">>

\* ------------------------------------------------------------ pure helpers
IsSpace(c) == c \in {" ", "\n", "\t"}

RECURSIVE TrimStart(_)
TrimStart(s) == IF s # <<>> /\ IsSpace(Head(s)) THEN TrimStart(Tail(s)) ELSE s

RECURSIVE TrimEnd(_)
TrimEnd(s) ==
  IF s # <<>> /\ IsSpace(s[Len(s)]) THEN TrimEnd(SubSeq(s, 1, Len(s) - 1)) ELSE s

\* String.prototype.trim
Trim(s) == TrimEnd(TrimStart(s))

LowerChar(c) ==
  CASE c = "R" -> "r" [] c = "D" -> "d" [] c = "O" -> "o"
    [] c = "C" -> "c" [] c = "X" -> "x" [] c = "P" -> "p"
    [] c = "F" -> "f" [] OTHER -> c

\* String.prototype.toLowerCase
ToLowerCase(s) == [i \in 1..Len(s) |-> LowerChar(s[i])]

\* String.prototype.endsWith
EndsWith(s, suffix) ==
  /\ Len(s) >= Len(suffix)
  /\ SubSeq(s, Len(s) - Len(suffix) + 1, Len(s)) = suffix

\* JS truthiness of a string-or-null value: null, undefined and '' are falsy
Truthy(v) == v # Null /\ v # Empty

\* a || b
OrElse(a, b) == IF Truthy(a) THEN a ELSE b

\* Array.prototype.slice(-n)
SliceLast(s, n) == IF Len(s) <= n THEN s ELSE SubSeq(s, Len(s) - n + 1, Len(s))

Msg(id, role, content) == [id |-> id, role |-> role, content |-> content]

\* m => ({ role: m.role === 'user' ? 'user' : 'model', parts: [{ text: m.content }] })
Turn(m) == [role |-> IF m.role = "user" THEN "user" ELSE "model", text |-> m.content]

\* mutant of Contents: the whole transcript is sent, as in the unwindowed revision
ContentsWholeHistory(msgs, text) ==
  [i \in 1..Len(msgs) |-> Turn(msgs[i])] \o <<[role |-> "user", text |-> text]>>

\* contents of the generateContent call, from the handler's closure
Contents(msgs, text) ==
  LET h == SliceLast(msgs, HistoryWindow)
  IN  [i \in 1..Len(h) |-> Turn(h[i])] \o <<[role |-> "user", text |-> text]>>

IsPrefix(s, t) == Len(s) <= Len(t) /\ SubSeq(t, 1, Len(s)) = s

\* ------------------------------------------------------------------ state
VARIABLES
  localStorage,   \* item TCB_API_KEY of the browser's local storage
  apiKey,         \* useState: apiKey
  showKeyDialog,  \* useState: showKeyDialog
  knowledgeBase,  \* useState: knowledgeBase (both components)
  messages,       \* useState: messages
  input,          \* useState: input
  isLoading,      \* useState: isLoading
  extracting,     \* index.jsx: file name -> number of extractRawText calls pending
  sending,        \* index.jsx: the generateContent calls pending
  fileName,       \* App.tsx useState: fileName
  isParsing,      \* App.tsx useState: isParsing
  errorMsg,       \* App.tsx useState: errorMsg
  parsing,        \* App.tsx: name of the file whose extraction is pending, or Null
  lastOp,         \* history: the handler step taken last
  lastReq,        \* history: the request that step accepted or finished
  returned        \* history: number of generateContent calls that have settled

vars == <<localStorage, apiKey, showKeyDialog, knowledgeBase, messages, input,
          isLoading, extracting, sending, fileName, isParsing, errorMsg,
          parsing, lastOp, lastReq, returned>>

jsxVars == <<localStorage, apiKey, showKeyDialog, messages, input, isLoading,
             extracting, sending>>
tsxVars == <<fileName, isParsing, errorMsg, parsing>>

NoReq == [at |-> 0, text |-> Empty, contents |-> <<>>, doc |-> Null]

\* every call still pending that may append one message when it settles
Pending == Cardinality(sending)
Extracting == LET RECURSIVE Sum(_)
                  Sum(S) == IF S = {} THEN 0
                            ELSE LET f == CHOOSE f \in S : TRUE
                                 IN  extracting[f] + Sum(S \ {f})
              IN  Sum(FileNames)

\* ------------------------------------------------------- index.jsx: start
InitialMessages == <<Msg("1", "assistant", GREETING)>>

Init ==
  /\ localStorage \in StoredKeys
  /\ apiKey = OrElse(localStorage, Empty)
  /\ showKeyDialog = ~Truthy(apiKey)
  /\ knowledgeBase = Null
  /\ messages = InitialMessages
  /\ input = Empty
  /\ isLoading = FALSE
  /\ extracting = [f \in FileNames |-> 0]
  /\ sending = {}
  /\ fileName = Null
  /\ isParsing = FALSE
  /\ errorMsg = Null
  /\ parsing = Null
  /\ lastOp = "start"
  /\ lastReq = NoReq
  /\ returned = 0

\* ---------------------------------------------------- index.jsx: key dialog
\* onChange of the key field, rendered only while showKeyDialog
KeyChange(v) ==
  /\ showKeyDialog
  /\ apiKey' = v
  /\ localStorage' = v
  /\ lastOp' = "keyChange"
  /\ lastReq' = NoReq
  /\ returned' = returned
  /\ UNCHANGED <<showKeyDialog, knowledgeBase, messages, input, isLoading,
                 extracting, sending, tsxVars>>

\* onClick of the dialog's button
DismissKeyDialog ==
  /\ showKeyDialog
  /\ showKeyDialog' = FALSE
  /\ lastOp' = "dismiss"
  /\ lastReq' = NoReq
  /\ returned' = returned
  /\ UNCHANGED <<localStorage, apiKey, knowledgeBase, messages, input,
                 isLoading, extracting, sending, tsxVars>>

\* onChange of the question field, disabled while !knowledgeBase || isLoading
InputChange(v) ==
  /\ Truthy(knowledgeBase)
  /\ ~isLoading
  /\ input' = v
  /\ lastOp' = "inputChange"
  /\ lastReq' = NoReq
  /\ returned' = returned
  /\ UNCHANGED <<localStorage, apiKey, showKeyDialog, knowledgeBase, messages,
                 isLoading, extracting, sending, tsxVars>>

\* ------------------------------------------------ index.jsx: handleFileUpload
\* if (!file) return;
FileUploadNoFile ==
  /\ lastOp' = "upload:nofile"
  /\ lastReq' = NoReq
  /\ returned' = returned
  /\ UNCHANGED <<jsxVars, knowledgeBase, tsxVars>>

\* up to the first await: setIsLoading(true), extraction started
FileUploadStartWithin(name, max) ==
  /\ Len(messages) + Pending + Extracting < max
  /\ Extracting < MaxUploads
  /\ isLoading' = TRUE
  /\ extracting' = [extracting EXCEPT ![name] = @ + 1]
  /\ lastOp' = "upload:start"
  /\ lastReq' = NoReq
  /\ returned' = returned
  /\ UNCHANGED <<localStorage, apiKey, showKeyDialog, knowledgeBase, messages,
                 input, sending, tsxVars>>

FileUploadStart(name) == FileUploadStartWithin(name, MaxMsgs)

\* mutant of FileUploadLoaded: a new rulebook starts the transcript afresh
FileUploadLoadedResets(name, value) ==
  /\ extracting[name] > 0
  /\ extracting' = [extracting EXCEPT ![name] = @ - 1]
  /\ knowledgeBase' = value
  /\ messages' = <<Msg("sys", "assistant", LoadedText(name))>>
  /\ isLoading' = FALSE
  /\ lastOp' = "upload:loaded"
  /\ lastReq' = NoReq
  /\ returned' = returned
  /\ UNCHANGED <<localStorage, apiKey, showKeyDialog, input, sending, tsxVars>>

\* extractRawText resolved: setKnowledgeBase, confirmation, finally
FileUploadLoaded(name, value) ==
  /\ extracting[name] > 0
  /\ extracting' = [extracting EXCEPT ![name] = @ - 1]
  /\ knowledgeBase' = value
  /\ messages' = Append(messages, Msg("sys", "assistant", LoadedText(name)))
  /\ isLoading' = FALSE
  /\ lastOp' = "upload:loaded"
  /\ lastReq' = NoReq
  /\ returned' = returned
  /\ UNCHANGED <<localStorage, apiKey, showKeyDialog, input, sending, tsxVars>>

\* arrayBuffer() or extractRawText rejected: alert, finally
FileUploadFailed(name) ==
  /\ extracting[name] > 0
  /\ extracting' = [extracting EXCEPT ![name] = @ - 1]
  /\ isLoading' = FALSE
  /\ lastOp' = "upload:failed"
  /\ lastReq' = NoReq
  /\ returned' = returned
  /\ UNCHANGED <<localStorage, apiKey, showKeyDialog, knowledgeBase, messages,
                 input, sending, tsxVars>>

\* ------------------------------------------------------ index.jsx: handleSend
\* mutant of SendRefused: the guard forgets the pending flag
SendRefusedIgnoringLoading ==
  \/ ~Truthy(Trim(input))
  \/ ~Truthy(apiKey)
  \/ ~Truthy(knowledgeBase)

\* if (!input.trim() || !apiKey || !knowledgeBase || isLoading) return;
SendRefused ==
  \/ ~Truthy(Trim(input))
  \/ ~Truthy(apiKey)
  \/ ~Truthy(knowledgeBase)
  \/ isLoading

\* the guard returned: nothing is set, nothing is requested
SendIgnored ==
  /\ SendRefused
  /\ lastOp' = "send:refused"
  /\ lastReq' = NoReq
  /\ returned' = returned
  /\ UNCHANGED <<jsxVars, knowledgeBase, tsxVars>>

\* the request handleSend issues; at is the place its user turn takes
Request(msgs, text, doc) ==
  [at |-> Len(msgs) + 1, text |-> text, contents |-> Contents(msgs, text),
   doc |-> doc]

\* user turn appended, field cleared, flag set, generateContent called
SendAcceptedWithin(max) ==
  /\ ~SendRefused
  /\ Len(messages) + Pending + Extracting + 2 <= max
  /\ LET r == Request(messages, input, knowledgeBase)
     IN  /\ messages' = Append(messages, Msg("user", "user", input))
         /\ sending' = sending \cup {r}
         /\ lastReq' = r
  /\ input' = Empty
  /\ isLoading' = TRUE
  /\ lastOp' = "send:accepted"
  /\ returned' = returned
  /\ UNCHANGED <<localStorage, apiKey, showKeyDialog, knowledgeBase,
                 extracting, tsxVars>>

SendAccepted == SendAcceptedWithin(MaxMsgs)

\* generateContent resolved: assistant turn with response.text, finally
SendResolved(r, text) ==
  /\ r \in sending
  /\ sending' = sending \ {r}
  /\ messages' = Append(messages, Msg("bot", "assistant", text))
  /\ isLoading' = FALSE
  /\ lastOp' = "send:resolved"
  /\ lastReq' = r
  /\ returned' = returned + 1
  /\ UNCHANGED <<localStorage, apiKey, showKeyDialog, knowledgeBase, input,
                 extracting, tsxVars>>

\* mutant of SendRejected: the failure is reported by an alert, not a turn
SendRejectedByAlert(r) ==
  /\ r \in sending
  /\ sending' = sending \ {r}
  /\ isLoading' = FALSE
  /\ lastOp' = "send:rejected"
  /\ lastReq' = r
  /\ returned' = returned + 1
  /\ UNCHANGED <<localStorage, apiKey, showKeyDialog, knowledgeBase, input,
                 messages, extracting, tsxVars>>

\* mutant of SendRejected: the failure takes the optimistic user turn back
SendRejectedRollsBack(r) ==
  /\ r \in sending
  /\ sending' = sending \ {r}
  /\ messages' = [messages EXCEPT ![r.at] = Msg("err", "assistant", ERRTEXT)]
  /\ isLoading' = FALSE
  /\ lastOp' = "send:rejected"
  /\ lastReq' = r
  /\ returned' = returned + 1
  /\ UNCHANGED <<localStorage, apiKey, showKeyDialog, knowledgeBase, input,
                 extracting, tsxVars>>

\* mutant of SendRejected: setIsLoading(false) sits in the try block only
SendRejectedStaysLoading(r) ==
  /\ r \in sending
  /\ sending' = sending \ {r}
  /\ messages' = Append(messages, Msg("err", "assistant", ERRTEXT))
  /\ lastOp' = "send:rejected"
  /\ lastReq' = r
  /\ returned' = returned + 1
  /\ UNCHANGED <<localStorage, apiKey, showKeyDialog, knowledgeBase, input,
                 isLoading, extracting, tsxVars>>

\* generateContent (or the client's construction) threw: error turn, finally
SendRejected(r) ==
  /\ r \in sending
  /\ sending' = sending \ {r}
  /\ messages' = Append(messages, Msg("err", "assistant", ERRTEXT))
  /\ isLoading' = FALSE
  /\ lastOp' = "send:rejected"
  /\ lastReq' = r
  /\ returned' = returned + 1
  /\ UNCHANGED <<localStorage, apiKey, showKeyDialog, knowledgeBase, input,
                 extracting, tsxVars>>

KeyChangeAny == \E v \in Keys : KeyChange(v)
InputChangeAny == \E v \in Inputs : InputChange(v)
FileUploadStartAny == \E f \in FileNames : FileUploadStart(f)
FileUploadLoadedAny == \E f \in FileNames, t \in DocTexts : FileUploadLoaded(f, t)
FileUploadFailedAny == \E f \in FileNames : FileUploadFailed(f)
SendResolvedAny == \E r \in sending, t \in Replies : SendResolved(r, t)
SendRejectedAny == \E r \in sending : SendRejected(r)

Next ==
  \/ KeyChangeAny
  \/ DismissKeyDialog
  \/ InputChangeAny
  \/ FileUploadNoFile
  \/ FileUploadStartAny
  \/ FileUploadLoadedAny
  \/ FileUploadFailedAny
  \/ SendIgnored
  \/ SendAccepted
  \/ SendResolvedAny
  \/ SendRejectedAny

Spec == Init /\ [][Next]_vars

\* ------------------------------------------- index.jsx: calls that settle
\* the generateContent call whose user turn is at place a settles, either way
Settle(a) ==
  \E r \in sending :
    /\ r.at = a
    /\ \/ \E t \in Replies : SendResolved(r, t)
       \/ SendRejected(r)

\* await ai.models.generateContent(...): every call resolves or rejects
EveryCallSettles == \A a \in 1..MaxMsgs : WF_vars(Settle(a))

\* a session that finds its key in local storage: the dialog never shows
StoredKeyInit ==
  /\ Init
  /\ localStorage = <<"k">>

\* the handlers of such a session
ChatNext ==
  \/ InputChangeAny
  \/ FileUploadNoFile
  \/ FileUploadStartAny
  \/ FileUploadLoadedAny
  \/ FileUploadFailedAny
  \/ SendIgnored
  \/ SendAccepted
  \/ SendResolvedAny
  \/ SendRejectedAny

SpecLive == StoredKeyInit /\ [][ChatNext]_vars /\ EveryCallSettles

\* ------------------------------- index.jsx: sessions that outgrow the window
\* one rulebook, two questions, a stored key: the transcript may grow past
\* the six messages a request carries
WindowFiles == {<<"r", ".", "d", "o", "c", "x">>}
WindowTexts == {<<"t">>}
WindowInputs == {<<" ", "q">>, <<"q">>}

WindowInputChange == \E v \in WindowInputs : InputChange(v)
WindowUploadStart == \E f \in WindowFiles : FileUploadStartWithin(f, MaxWindowMsgs)
WindowUploadLoaded == \E f \in WindowFiles, t \in WindowTexts : FileUploadLoaded(f, t)
WindowUploadFailed == \E f \in WindowFiles : FileUploadFailed(f)
WindowSendAccepted == SendAcceptedWithin(MaxWindowMsgs)

WindowNext ==
  \/ WindowInputChange
  \/ WindowUploadStart
  \/ WindowUploadLoaded
  \/ WindowUploadFailed
  \/ WindowSendAccepted
  \/ SendResolvedAny
  \/ SendRejectedAny

SpecWindow == StoredKeyInit /\ [][WindowNext]_vars

\* ------------------------------------------------------ App.tsx: messages
FORMATERR == <<"FORMAT">>                 \* '格式錯誤：請上傳 .docx 格式。'
EMPTYMSG == <<"EMPTY">>                   \* '檔案內容為空。'
ThrownMsgs == {<<"THROWN">>, <<"ZIP">>, Empty}             \* message of an error the collaborator throws
ReadFailed(msg) == <<"READFAIL:">> \o msg \* `讀取失敗：${error.message}`

\* file.name.toLowerCase().endsWith('.docx')
IsDocx(name) == EndsWith(ToLowerCase(name), DOCX)

\* !text || text.trim().length === 0
NoText(text) == ~Truthy(text) \/ Len(Trim(text)) = 0

TsxInit ==
  /\ Init
  /\ localStorage = Null

\* ------------------------------------------------ App.tsx: handleFileUpload
\* if (!file) return;
TsxUploadNoFile ==
  /\ ~isParsing
  /\ lastOp' = "tsx:nofile"
  /\ UNCHANGED <<jsxVars, knowledgeBase, tsxVars, lastReq, returned>>

\* wrong extension: message set, picker cleared, return before any extraction
TsxUploadWrongFormat(name) ==
  /\ ~isParsing
  /\ ~IsDocx(name)
  /\ errorMsg' = FORMATERR
  /\ lastOp' = "tsx:wrongFormat"
  /\ UNCHANGED <<jsxVars, knowledgeBase, fileName, isParsing, parsing, lastReq, returned>>

\* up to the first await: error cleared, setIsParsing(true), setFileName
TsxUploadStart(name) ==
  /\ ~isParsing
  /\ IsDocx(name)
  /\ errorMsg' = Null
  /\ isParsing' = TRUE
  /\ fileName' = name
  /\ parsing' = name
  /\ lastOp' = "tsx:start"
  /\ UNCHANGED <<jsxVars, knowledgeBase, lastReq, returned>>

\* catch (error) ... finally
TsxCatch(msg) ==
  /\ errorMsg' = ReadFailed(msg)
  /\ fileName' = Null
  /\ knowledgeBase' = Null
  /\ isParsing' = FALSE

\* extractRawText resolved with text
TsxUploadResolved(text) ==
  /\ parsing # Null
  /\ parsing' = Null
  /\ IF NoText(text)
       THEN TsxCatch(EMPTYMSG)
       ELSE /\ knowledgeBase' = text
            /\ errorMsg' = Null
            /\ isParsing' = FALSE
            /\ UNCHANGED fileName
  /\ lastOp' = IF NoText(text) THEN "tsx:empty" ELSE "tsx:loaded"
  /\ UNCHANGED <<jsxVars, lastReq, returned>>

\* arrayBuffer() or extractRawText rejected
TsxUploadRejected(msg) ==
  /\ parsing # Null
  /\ parsing' = Null
  /\ TsxCatch(msg)
  /\ lastOp' = "tsx:thrown"
  /\ UNCHANGED <<jsxVars, lastReq, returned>>

\* handleReset, behind the button rendered while fileName is set
TsxReset ==
  /\ Truthy(fileName)
  /\ knowledgeBase' = Null
  /\ fileName' = Null
  /\ lastOp' = "tsx:reset"
  /\ UNCHANGED <<jsxVars, isParsing, errorMsg, parsing, lastReq, returned>>

TsxUploadWrongFormatAny == \E f \in TsxFileNames : TsxUploadWrongFormat(f)
TsxUploadStartAny == \E f \in TsxFileNames : TsxUploadStart(f)
TsxUploadResolvedAny == \E t \in TsxDocTexts : TsxUploadResolved(t)
TsxUploadRejectedAny == \E m \in ThrownMsgs : TsxUploadRejected(m)

TsxNext ==
  \/ TsxUploadNoFile
  \/ TsxUploadWrongFormatAny
  \/ TsxUploadStartAny
  \/ TsxUploadResolvedAny
  \/ TsxUploadRejectedAny
  \/ TsxReset

SpecTsx == TsxInit /\ [][TsxNext]_vars

\* ================================================================= claims
\* what the claims call things
Blank(text) == \A i \in 1..Len(text) : IsSpace(text[i])
InFlight == Cardinality(sending)
Count(ids) == Cardinality({i \in 1..Len(messages) : messages[i].id \in ids})
UserTurn(text) == [id |-> "user", role |-> "user", content |-> text]
HandleSendStep == lastOp' \in {"send:refused", "send:accepted"} /\ vars' # vars
Returned == lastOp \in {"send:resolved", "send:rejected"}

\* C1: a handleSend invoked while the input is blank, or no document is
\* loaded, or the API key is empty, or isLoading is true, changes nothing:
\* messages, input, isLoading and the document stay as they are and no
\* completion request is issued.
C1_RefusedSendChangesNothing ==
  [][(HandleSendStep /\ (\/ Blank(input)
                         \/ knowledgeBase = Null
                         \/ apiKey = Empty
                         \/ isLoading))
       => UNCHANGED <<messages, input, isLoading, knowledgeBase, sending>>]_vars

\* handleSend has just been refused for isLoading alone
C1_Witness ==
  /\ lastOp = "send:refused"
  /\ isLoading
  /\ ~Blank(input)
  /\ knowledgeBase # Null /\ knowledgeBase # Empty
  /\ apiKey # Empty

\* C2: at most one completion request is in flight at any time.
C2_AtMostOneInFlight == InFlight <= 1

\* C3: isLoading is true if and only if exactly one completion request is
\* in flight.
C3_LoadingIffOneInFlight == isLoading <=> (InFlight = 1)

\* C4: each completed round trip accounts for exactly 2 messages of the
\* transcript, the user turn and one assistant turn, which carries the
\* returned text on success and the fixed error text on failure. Beside the
\* greeting and the load confirmations, the transcript holds two messages per
\* settled call and one per pending call.
C4_RoundTripAddsTwo ==
  /\ Len(messages) = 1 + Count({"sys"}) + 2 * returned + InFlight
  /\ Count({"user"}) = returned + InFlight
  /\ Count({"bot", "err"}) = returned
  /\ lastOp = "send:resolved" =>
       /\ messages[Len(messages)].id = "bot"
       /\ messages[Len(messages)].role = "assistant"
       /\ messages[Len(messages)].content \in Replies
  /\ lastOp = "send:rejected" =>
       messages[Len(messages)] = [id |-> "err", role |-> "assistant", content |-> ERRTEXT]

\* one round trip has succeeded and another has just failed
C4_Witness ==
  /\ lastOp = "send:rejected"
  /\ returned = 2
  /\ Count({"bot"}) = 1
  /\ InFlight = 0

\* C5: the user message of an accepted send is in the transcript while its
\* completion request is pending, and is still there after the request
\* has failed.
C5_QuestionStaysVisible ==
  /\ \A r \in sending :
       r.at <= Len(messages) /\ messages[r.at] = UserTurn(r.text)
  /\ lastOp \in {"send:accepted", "send:rejected"} =>
       lastReq.at <= Len(messages) /\ messages[lastReq.at] = UserTurn(lastReq.text)

\* a completion request has just failed
C5_Witness ==
  /\ lastOp = "send:rejected"
  /\ lastReq.at = 3
  /\ messages[3] = UserTurn(<<" ", "q">>)

\* C6: when a completion call returns, the transcript ends with the user turn
\* of that send immediately followed by its assistant turn.
C6_ReplyFollowsQuestion ==
  Returned =>
    /\ lastReq.at = Len(messages) - 1
    /\ messages[Len(messages) - 1] = UserTurn(lastReq.text)
    /\ messages[Len(messages)].role = "assistant"

\* C7: the transcript is append-only: across every step the previous message
\* sequence is a prefix of the new one, and the first message is always the
\* assistant greeting.
C7_AppendOnly ==
  /\ [](messages[1] = [id |-> "1", role |-> "assistant", content |-> GREETING])
  /\ [][IsPrefix(messages, messages')]_vars

\* the transcript has grown by a confirmation, a question and an error turn
C7_Witness ==
  /\ Len(messages) >= 4
  /\ Count({"sys"}) >= 1
  /\ Count({"user"}) >= 1
  /\ lastOp = "send:rejected"

\* C8: a file whose name does not end in .docx is never handed to the
\* extraction collaborator and never becomes the loaded document.
C8_WrongFormatNeverExtracted ==
  /\ \A f \in FileNames : ~IsDocx(f) => extracting[f] = 0
  /\ \A i \in 1..Len(messages) :
       messages[i].id = "sys" => IsDocx(Tail(messages[i].content))

\* C8 in App.tsx: the rejection starts no extraction and leaves the loaded
\* text, the file name and the parsing flag as they were.
C8_TsxWrongFormatRejected ==
  /\ [](parsing # Null => IsDocx(parsing))
  /\ [][lastOp' = "tsx:wrongFormat"
         => UNCHANGED <<knowledgeBase, fileName, isParsing, parsing>>]_vars

\* C9: an upload whose extraction throws, or yields text that is blank after
\* trimming, ends as a failure and leaves no document loaded.
C9_FailedUploadLeavesNoDocument ==
  /\ lastOp = "upload:failed" => knowledgeBase = Null
  /\ lastOp = "upload:loaded" => ~Blank(knowledgeBase)

\* C9 in App.tsx: after a thrown or blank extraction neither text nor file
\* name is left, and text that is kept is not blank.
C9_TsxFailedUploadLeavesNoDocument ==
  /\ lastOp \in {"tsx:empty", "tsx:thrown"} =>
       knowledgeBase = Null /\ fileName = Null /\ ~isParsing
  /\ lastOp = "tsx:loaded" => knowledgeBase # Null /\ ~Blank(knowledgeBase)

\* App.tsx: an upload failed after a document had been loaded
C9_TsxWitness ==
  /\ lastOp \in {"tsx:empty", "tsx:thrown"}
  /\ errorMsg # Null

\* C10: in no reachable state is the key prompt gone while the API key is
\* empty.
C10_PromptUntilKey == ~showKeyDialog => apiKey # Empty

\* C11: provided every completion call settles, every accepted send comes
\* back: its call returns, by success or by failure, and at that moment
\* isLoading is false again, so that the pending flag refuses no further send.
C11_SendReturnsToReady ==
  \A a \in 1..MaxMsgs :
    (\E r \in sending : r.at = a) ~> (Returned /\ lastReq.at = a /\ ~isLoading)

\* a further send has been accepted after a failed one
C11_Witness ==
  /\ lastOp = "send:accepted"
  /\ returned = 1
  /\ Count({"err"}) = 1
  /\ InFlight = 1

\* C12: the turn list of an accepted send is the last at most 6 messages of
\* the transcript as it stood before the send, in their order, user kept as
\* user and assistant mapped to model, followed by exactly one user turn
\* holding the submitted input; the new user turn is not part of the history.
RoleOfTurn(m) == IF m.role = "assistant" THEN "model" ELSE "user"
Issued == sending \cup (IF lastReq.at > 0 THEN {lastReq} ELSE {})
C12_RequestCarriesWindow ==
  \A r \in Issued :
    LET before == r.at - 1
        k == IF before < 6 THEN before ELSE 6
    IN  /\ messages[r.at] = UserTurn(r.text)
        /\ Len(r.contents) = k + 1
        /\ \A i \in 1..k :
             /\ r.contents[i].role = RoleOfTurn(messages[before - k + i])
             /\ r.contents[i].text = messages[before - k + i].content
        /\ r.contents[k + 1] = [role |-> "user", text |-> r.text]

\* a request is pending whose transcript before the send was longer than the
\* window, and the window holds turns of both roles
C12_Witness ==
  \E r \in sending :
    /\ r.at - 1 > 6
    /\ Len(r.contents) = 7
    /\ \E i, j \in 1..6 : r.contents[i].role = "user" /\ r.contents[j].role = "model"

\* C13: an upload appends the load confirmation exactly when it makes a
\* document present: right after the confirmation is appended a non-empty
\* document text is loaded.
C13_ConfirmationMeansDocument ==
  lastOp = "upload:loaded" =>
    /\ messages[Len(messages)].id = "sys"
    /\ knowledgeBase # Null
    /\ knowledgeBase # Empty

\* C14: in App.tsx, whenever no parse is in progress, fileName is set if and
\* only if knowledgeBase is defined.
C14_FileNameIffKnowledgeBase ==
  ~isParsing => ((fileName # Null) <=> (knowledgeBase # Null))

====
